---- MODULE Spec2Model ----
(***************************************************************************)
(* Model of src/bot.py: the signal loop scan_market, the indicator engine  *)
(* analyze, the job daily_report and the chat commands that share its      *)
(* process-wide state (bot_active, stats, last_signal_time).               *)
(*                                                                         *)
(* Time is the UTC wall clock in whole seconds.  The job queue runs        *)
(* scan_market as one asyncio task at a time; the command handlers run on  *)
(* the same event loop, so they interleave with scan_market only where it  *)
(* is suspended in `await context.bot.send_message` (pc = "sending") or    *)
(* not running (pc = "idle").  analyze is a blocking call: no handler      *)
(* runs during it, and the clock is advanced only at those two points.     *)
(*                                                                         *)
(* A downloaded frame is represented by its number of bars and by the      *)
(* last-row quantities analyze derives from it (EMA50, EMA200, the         *)
(* 14-period average gain and loss, the MACD histogram), prices in units   *)
(* of 0.0001.  RSI values are exact rationals [n, d]; NaN is a value of    *)
(* its own, for which every comparison is false.                           *)
(***************************************************************************)
EXTENDS Integers, Sequences, FiniteSets, TLC

\* ---------------------------------------------------------------- bounds
\* Number of entries of PAIRS that are scanned.
NumPairs == 1

\* Number of times the clock advances in a behaviour.
MaxAdvances == 2

\* Number of win and loss commands handled in a behaviour.
MaxOutcomes == 3

\* ---------------------------------------------------------------- config
PairNames == <<"EURUSD", "GBPUSD", "USDJPY", "AUDUSD", "USDCHF", "USDCAD">>

PAIRS == SubSeq(PairNames, 1, NumPairs)

TIMEFRAMES == <<"M1", "M5">>

\* The (pair, tf_name) couples in the order the two nested loops visit them.
ScanOrder ==
  [i \in 1..(Len(PAIRS) * Len(TIMEFRAMES)) |->
     [pair    |-> PAIRS[((i - 1) \div Len(TIMEFRAMES)) + 1],
      tf_name |-> TIMEFRAMES[((i - 1) % Len(TIMEFRAMES)) + 1]]]

\* key = f"{pair}_{tf_name}"
KeyOf(pair, tf_name) == pair \o "_" \o tf_name

KeyAt(i) == KeyOf(ScanOrder[i].pair, ScanOrder[i].tf_name)

Keys == {KeyAt(i) : i \in DOMAIN ScanOrder}

\* mode = "AGGRESSIVE" if tf_name == "M1" else "SAFE"
ModeOf(tf_name) == IF tf_name = "M1" THEN "AGGRESSIVE" ELSE "SAFE"

\* A variant with the two windows exchanged.
CooldownWindowSwapped(tf_name) == IF tf_name = "M1" THEN 300 ELSE 60

\* (60 if tf_name == "M1" else 300)
CooldownWindow(tf_name) == IF tf_name = "M1" THEN 60 ELSE 300

\* The timeframe a key was built from.
TfOfKey(key) == ScanOrder[CHOOSE i \in DOMAIN ScanOrder : KeyAt(i) = key].tf_name

\* ------------------------------------------------------- indicator engine
NaN == [nan |-> TRUE]

None == "None"

\* rs = gain / loss; rsi = 100 - (100 / (1 + rs)), on the last row.
\* Float division: x/0 is inf for x > 0 and NaN for x = 0; 100/(1+inf) = 0.
RSI(gain, loss) ==
  IF loss = 0
    THEN IF gain = 0 THEN NaN ELSE [n |-> 100, d |-> 1]
    ELSE [n |-> 100 * gain, d |-> gain + loss]

\* lo <= rsi_val <= hi
RsiBetween(lo, rsi_val, hi) ==
  /\ rsi_val # NaN
  /\ lo * rsi_val.d <= rsi_val.n
  /\ rsi_val.n <= hi * rsi_val.d

\* A variant that applies the AGGRESSIVE thresholds in both modes.
SignalLogicOneTable(ema50, ema200, rsi_val, hist_val, mode) ==
  LET bullish == ema50 > ema200
      bearish == ema50 < ema200
  IN  IF bullish /\ RsiBetween(45, rsi_val, 65) /\ hist_val > 0
        THEN "BUY"
      ELSE IF bearish /\ RsiBetween(35, rsi_val, 55) /\ hist_val < 0
        THEN "SELL"
      ELSE None

\* The signal logic of analyze on the latest values.
SignalLogic(ema50, ema200, rsi_val, hist_val, mode) ==
  LET bullish == ema50 > ema200
      bearish == ema50 < ema200
  IN  IF mode = "AGGRESSIVE" /\ bullish /\ RsiBetween(45, rsi_val, 65) /\ hist_val > 0
        THEN "BUY"
      ELSE IF mode = "AGGRESSIVE" /\ bearish /\ RsiBetween(35, rsi_val, 55) /\ hist_val < 0
        THEN "SELL"
      ELSE IF mode = "SAFE" /\ bullish /\ RsiBetween(48, rsi_val, 60) /\ hist_val > 0
        THEN "BUY"
      ELSE IF mode = "SAFE" /\ bearish /\ RsiBetween(40, rsi_val, 52) /\ hist_val < 0
        THEN "SELL"
      ELSE None

\* The latest values analyze computes from a frame of at least 200 bars.
SnapshotOf(df) ==
  [ema_fast |-> df.ema50, ema_slow |-> df.ema200,
   rsi |-> RSI(df.gain, df.loss), hist |-> df.hist]

\* A variant without the tests of the length.
analyzeAnyLength(df, mode) ==
  IF df.kind = "none"
    THEN None
    ELSE LET s == SnapshotOf(df)
         IN  SignalLogic(s.ema_fast, s.ema_slow, s.rsi, s.hist, mode)

\* analyze(pair, yf_symbol, tf, mode) on the frame yf.download returned.
\* (A download that raises never reaches this point: see ScanKey.)
analyze(df, mode) ==
  IF df.kind = "none" \/ df.len = 0 \/ df.len < 200
    THEN None
    ELSE LET s == SnapshotOf(df)
         IN  SignalLogic(s.ema_fast, s.ema_slow, s.rsi, s.hist, mode)

\* ------------------------------------------------------ provider outcomes
\* (average gain, average loss) couples: RSI on and next to every threshold
\* of the table, 70, a flat window, an all-gain and an all-loss window.
GainLoss ==
  {<<g, 100 - g>> : g \in {34, 35, 39, 40, 44, 45, 47, 48, 52, 53,
                           55, 56, 60, 61, 65, 66, 70}}
    \cup {<<899, 1101>>, <<1301, 699>>, <<0, 0>>, <<3, 0>>, <<0, 3>>}

EmaPairs == {<<10010, 10000>>, <<10000, 10010>>, <<10000, 10000>>}

HistValues == {-1, 0, 2}

FullFrames ==
  {[kind |-> "data", len |-> 200, ema50 |-> e[1], ema200 |-> e[2],
    gain |-> gl[1], loss |-> gl[2], hist |-> h] :
      e \in EmaPairs, gl \in GainLoss, h \in HistValues}

\* Empty and too-short frames whose values would otherwise give BUY.
ShortFrames ==
  {[kind |-> "data", len |-> l, ema50 |-> 10010, ema200 |-> 10000,
    gain |-> 55, loss |-> 45, hist |-> 2] : l \in {0, 199}}

NoFrame ==
  [kind |-> "none", len |-> 0, ema50 |-> 0, ema200 |-> 0,
   gain |-> 0, loss |-> 0, hist |-> 0]

RaisingDownload ==
  [kind |-> "raise", len |-> 0, ema50 |-> 0, ema200 |-> 0,
   gain |-> 0, loss |-> 0, hist |-> 0]

Frame(ema50, ema200, gain, loss, hist) ==
  [kind |-> "data", len |-> 200, ema50 |-> ema50, ema200 |-> ema200,
   gain |-> gain, loss |-> loss, hist |-> hist]

\* What yf.download does in a tick: it raises, returns None, an empty or a
\* short frame, or 200 bars that give BUY in both modes, BUY in AGGRESSIVE
\* only, SELL in both modes, no signal (RSI 70), or a flat window.
Downloads ==
  {RaisingDownload, NoFrame} \cup ShortFrames \cup
  {Frame(10010, 10000, 55, 45, 2), Frame(10010, 10000, 65, 35, 2),
   Frame(10000, 10010, 45, 55, -1), Frame(10010, 10000, 70, 30, 2),
   Frame(10010, 10000, 0, 0, 2)}

Modes == {"AGGRESSIVE", "SAFE"}

\* -------------------------------------------------------------- the clock
\* Amounts of time that pass in one step of the clock.
Delays == {1, 59, 299, 86399}

\* Time that passes while send_message is awaited, in one step of the clock.
Latencies == {1}

\* scan_market is run every 60 seconds: run_repeating(..., interval=60).
TickInterval == 60

\* timedelta.seconds of a non-negative timedelta of d seconds.
Seconds(d) == d % 86400

\* The cooldown window of a key as the specification states it (60 s for
\* M1, 300 s for M5): the yardstick of the properties and of the histories.
Window(key) == IF TfOfKey(key) = "M1" THEN 60 ELSE 300

\* ------------------------------------------------------------------ state
VARIABLES
  clock,            \* datetime.utcnow(), in seconds
  advances,         \* number of clock steps taken
  bot_active,       \* global bot_active
  last_signal_time, \* global dict: key -> datetime
  pc,               \* scan_market: "idle" (not running), "scan" (in the
                    \*   loops), "sending" (awaiting send_message); the call
                    \*   has just ended: "skipped" (returned at its top),
                    \*   "returned" (after the loops), "raised"
  idx,              \* iterations of the nested loops begun by the running call
  now,              \* local now of scan_market, while it is live
  direction,        \* local direction of scan_market, while it is live
  downloaded,       \* whether the latest iteration called analyze (yf.download)
  lastStamp,        \* key -> the now of the iteration that delivered its
                    \*   latest notification
  lastSent,         \* [key, at]: the latest notification delivered and the
                    \*   time of its delivery, kept while less than the key's
                    \*   window has passed
  df_in,            \* analyze on its own: the frame yf.download returned
  mode_in,          \* analyze on its own: the mode argument
  snapshot,         \* analyze on its own: the latest values it computed
  verdict,          \* analyze on its own: what it returned
  stats,            \* global dict stats: [win, loss]
  rpc,              \* daily_report: "idle" (not running), "sending"
                    \*   (awaiting send_message)
  report,           \* the text daily_report has handed to send_message:
                    \*   [wins, losses, rate]
  reply,            \* the latest reply of win, loss or summary
  handled,          \* [win, loss]: the win and loss commands handled
  reported          \* [win, loss]: the sums of the counts in the daily
                    \*   reports delivered

scanVars == <<pc, idx, now, direction, downloaded, lastStamp, lastSent>>

classVars == <<df_in, mode_in, snapshot, verdict>>

tallyVars == <<stats, rpc, report, reply, handled, reported>>

progVars == <<clock, advances, bot_active, last_signal_time, scanVars, tallyVars>>

vars == <<progVars, classVars>>

NoKeys == [k \in {} |-> 0]

NoSent == [key |-> None, at |-> 0]

Unset == "unset"

NoSnapshot == [none |-> TRUE]

NoText == [none |-> TRUE]

Zero == [win |-> 0, loss |-> 0]

ProgramInit ==
  /\ clock = 0
  /\ advances = 0
  /\ bot_active = TRUE
  /\ last_signal_time = NoKeys
  /\ pc = "idle"
  /\ idx = 0
  /\ now = 0
  /\ direction = None
  /\ downloaded = FALSE
  /\ lastStamp = NoKeys
  /\ lastSent = NoSent
  /\ stats = Zero
  /\ rpc = "idle"
  /\ report = NoText
  /\ reply = NoText
  /\ handled = Zero
  /\ reported = Zero

Init ==
  /\ ProgramInit
  /\ df_in = NoFrame
  /\ mode_in = "AGGRESSIVE"
  /\ snapshot = NoSnapshot
  /\ verdict = Unset

\* ------------------------------------------------------------ scan_market
\* A variant with the comparison turned round.
InCooldownAfterWindow(lst, key, tf_name, t) ==
  /\ key \in DOMAIN lst
  /\ Seconds(t - lst[key]) > CooldownWindow(tf_name)

\* if key in last_signal_time:
\*     if (now - last_signal_time[key]).seconds < (60 if ... else 300): continue
InCooldown(lst, key, tf_name, t) ==
  /\ key \in DOMAIN lst
  /\ Seconds(t - lst[key]) < CooldownWindow(tf_name)

\* A variant that keeps no other entry.
RecordAlone(lst, key, t) == [k \in {key} |-> t]

\* last_signal_time[key] = now
Record(lst, key, t) ==
  [k \in (DOMAIN lst) \cup {key} |-> IF k = key THEN t ELSE lst[k]]

\* A variant that assigns before the outcome of send_message is known.
RecordBeforeSend(outcome, lst, key, t) == Record(lst, key, t)

\* last_signal_time once `await send_message(...)` is over: the assignment
\* after it runs when the call returns, and is skipped when it raises.
RecordAfterSend(outcome, lst, key, t) ==
  IF outcome = "ok" THEN Record(lst, key, t) ELSE lst

\* The iteration for ScanOrder[i] is over: the loops go on, or scan_market
\* returns.  now and direction are assigned again before they are read.
NextKey(i) ==
  /\ now' = 0
  /\ direction' = None
  /\ pc' = IF i = Len(ScanOrder) THEN "returned" ELSE "scan"

\* A variant without the bot_active test.
ScanStartAlways ==
  /\ pc = "idle"
  /\ pc' = "scan"
  /\ UNCHANGED <<clock, advances, bot_active, last_signal_time, idx, now,
                 direction, downloaded, lastStamp, lastSent, classVars, tallyVars>>

\* The job queue calls scan_market: the bot_active test at its top.
ScanStart ==
  /\ pc = "idle"
  /\ pc' = IF ~bot_active THEN "skipped" ELSE "scan"
  /\ UNCHANGED <<clock, advances, bot_active, last_signal_time, idx, now,
                 direction, downloaded, lastStamp, lastSent, classVars, tallyVars>>

\* One iteration of the loops up to its continue, its end, an exception of
\* the download (which leaves analyze and scan_market), or the call of
\* send_message.
ScanKey(df) ==
  /\ pc = "scan"
  /\ idx' = idx + 1
  /\ LET pair    == ScanOrder[idx + 1].pair
         tf_name == ScanOrder[idx + 1].tf_name
         mode    == ModeOf(tf_name)
         key     == KeyOf(pair, tf_name)
     IN  IF InCooldown(last_signal_time, key, tf_name, clock)
           THEN /\ downloaded' = FALSE
                /\ NextKey(idx + 1)
           ELSE /\ downloaded' = TRUE
                /\ IF df.kind = "raise"
                     THEN pc' = "raised" /\ UNCHANGED <<now, direction>>
                     ELSE IF analyze(df, mode) # None
                            THEN /\ pc' = "sending"
                                 /\ now' = clock
                                 /\ direction' = analyze(df, mode)
                            ELSE NextKey(idx + 1)
  /\ UNCHANGED <<clock, advances, bot_active, last_signal_time, lastStamp,
                 lastSent, classVars, tallyVars>>

\* await context.bot.send_message(...) returns, or raises and leaves
\* scan_market; last_signal_time[key] = now follows a return with nothing
\* in between.
SendReturns(outcome) ==
  /\ pc = "sending"
  /\ LET key == KeyAt(idx)
     IN  /\ last_signal_time' = RecordAfterSend(outcome, last_signal_time, key, now)
         /\ IF outcome = "ok"
              THEN /\ lastStamp' = Record(lastStamp, key, now)
                   /\ lastSent' = [key |-> key, at |-> clock]
                   /\ NextKey(idx)
              ELSE /\ pc' = "raised"
                   /\ UNCHANGED <<now, direction, lastStamp, lastSent>>
  /\ UNCHANGED <<clock, advances, bot_active, idx, downloaded, classVars, tallyVars>>

\* The call of scan_market is over; the job queue has the next one to make.
ScanEnd ==
  /\ pc \in {"skipped", "returned", "raised"}
  /\ pc' = "idle"
  /\ idx' = 0
  /\ now' = 0
  /\ direction' = None
  /\ downloaded' = FALSE
  /\ UNCHANGED <<clock, advances, bot_active, last_signal_time, lastStamp,
                 lastSent, classVars, tallyVars>>

\* The keys whose iteration the running call has begun.
Considered == {KeyAt(i) : i \in 1..idx}

\* --------------------------------------------------------------- commands
\* Handlers run only while scan_market is suspended or not running.
LoopFree == pc \in {"idle", "sending"}

pause ==
  /\ LoopFree
  /\ bot_active' = FALSE
  /\ UNCHANGED <<clock, advances, last_signal_time, scanVars, classVars, tallyVars>>

resume ==
  /\ LoopFree
  /\ bot_active' = TRUE
  /\ UNCHANGED <<clock, advances, last_signal_time, scanVars, classVars, tallyVars>>

\* ------------------------------------------------------------ the tally
\* A variant that divides the losses by the total.
WinrateOfLosses(w, l) ==
  LET total == w + l
  IN  IF total > 0 THEN [n |-> l * 100, d |-> total] ELSE [n |-> 0, d |-> 1]

\* rate = (stats["win"] / total * 100) if total > 0 else 0, as the exact
\* fraction n/d.  (For counters this small the float differs from it by
\* far less than the two decimals that are shown.)
Winrate(w, l) ==
  LET total == w + l
  IN  IF total > 0 THEN [n |-> w * 100, d |-> total] ELSE [n |-> 0, d |-> 1]

\* f"{rate:.2f}": the number shown, in hundredths; a tie goes to the even
\* neighbour.
Format2f(rate) ==
  LET q == (rate.n * 100) \div rate.d
      r == (rate.n * 100) % rate.d
  IN  IF 2 * r > rate.d THEN q + 1
      ELSE IF 2 * r = rate.d THEN q + (q % 2)
      ELSE q

\* f"...Wins: {stats['win']}\nLosses: {stats['loss']}\nWinrate: {rate:.2f}%"
Text(st) ==
  [wins |-> st.win, losses |-> st.loss,
   rate |-> Format2f(Winrate(st.win, st.loss))]

WinReply == [text |-> "WIN recorded"]

LossReply == [text |-> "LOSS recorded"]

\* stats["win"] += 1, and the reply
win ==
  /\ LoopFree
  /\ handled.win + handled.loss < MaxOutcomes
  /\ stats' = [stats EXCEPT !.win = @ + 1]
  /\ reply' = WinReply
  /\ handled' = [handled EXCEPT !.win = @ + 1]
  /\ UNCHANGED <<clock, advances, bot_active, last_signal_time, scanVars,
                 classVars, rpc, report, reported>>

\* stats["loss"] += 1, and the reply
loss ==
  /\ LoopFree
  /\ handled.win + handled.loss < MaxOutcomes
  /\ stats' = [stats EXCEPT !.loss = @ + 1]
  /\ reply' = LossReply
  /\ handled' = [handled EXCEPT !.loss = @ + 1]
  /\ UNCHANGED <<clock, advances, bot_active, last_signal_time, scanVars,
                 classVars, rpc, report, reported>>

summary ==
  /\ LoopFree
  /\ reply' = Text(stats)
  /\ UNCHANGED <<clock, advances, bot_active, last_signal_time, scanVars,
                 classVars, stats, rpc, report, handled, reported>>

\* A variant that leaves the counters as they are.
KeepAfterSend(outcome, st) == st

\* stats once `await send_message(...)` of daily_report is over: the two
\* assignments after it run when the call returns, not when it raises.
ResetAfterSend(outcome, st) ==
  IF outcome = "ok" THEN Zero ELSE st

\* The job queue calls daily_report: total, rate and the text are computed
\* from stats, and send_message is called with the text.
daily_report ==
  /\ LoopFree
  /\ rpc = "idle"
  /\ rpc' = "sending"
  /\ report' = Text(stats)
  /\ UNCHANGED <<clock, advances, bot_active, last_signal_time, scanVars,
                 classVars, stats, reply, handled, reported>>

\* await context.bot.send_message(...) of daily_report returns, or raises
\* and leaves daily_report; the text goes with the call.
ReportReturns(outcome) ==
  /\ LoopFree
  /\ rpc = "sending"
  /\ rpc' = "idle"
  /\ stats' = ResetAfterSend(outcome, stats)
  /\ reported' = IF outcome = "ok"
                   THEN [win  |-> reported.win + report.wins,
                         loss |-> reported.loss + report.losses]
                   ELSE reported
  /\ report' = NoText
  /\ UNCHANGED <<clock, advances, bot_active, last_signal_time, scanVars,
                 classVars, reply, handled>>

\* ------------------------------------------------------------------- time
\* The clock is read in whole seconds; it moves while scan_market is
\* suspended or not running.
Advance(d) ==
  /\ LoopFree
  /\ pc = "sending" => d \in Latencies
  /\ advances < MaxAdvances
  /\ advances' = advances + 1
  /\ clock' = clock + d
  /\ lastSent' = IF lastSent.key # None /\ clock + d - lastSent.at < Window(lastSent.key)
                   THEN lastSent
                   ELSE NoSent
  /\ UNCHANGED <<bot_active, last_signal_time, pc, idx, now, direction,
                 downloaded, lastStamp, classVars, tallyVars>>

Next ==
  \/ ScanStart
  \/ \E df \in Downloads : ScanKey(df)
  \/ \E outcome \in {"ok", "raise"} : SendReturns(outcome)
  \/ ScanEnd
  \/ pause
  \/ resume
  \/ \E d \in Delays : Advance(d)

Spec == Init /\ [][Next]_vars

\* ------------------------------------- all handlers, within one instant
\* scan_market, daily_report and the five commands on one event loop, over
\* a stretch of time in which the clock does not move.
BotNext ==
  \/ ScanStart
  \/ \E df \in Downloads : ScanKey(df)
  \/ \E outcome \in {"ok", "raise"} : SendReturns(outcome)
  \/ ScanEnd
  \/ pause
  \/ resume
  \/ win
  \/ loss
  \/ summary
  \/ daily_report
  \/ \E outcome \in {"ok", "raise"} : ReportReturns(outcome)

BotSpec == Init /\ [][BotNext]_vars

\* ------------------------------------------- analyze on its own (inputs)
\* analyze applied once to each frame yf.download can return, in each mode.
ClassifyInit ==
  /\ ProgramInit
  /\ df_in \in FullFrames \cup ShortFrames \cup {NoFrame}
  /\ mode_in \in Modes
  /\ snapshot = NoSnapshot
  /\ verdict = Unset

AnalyzeStep ==
  /\ verdict = Unset
  /\ verdict' = analyze(df_in, mode_in)
  /\ snapshot' = IF df_in.kind = "none" \/ df_in.len = 0 \/ df_in.len < 200
                   THEN NoSnapshot
                   ELSE SnapshotOf(df_in)
  /\ UNCHANGED <<progVars, df_in, mode_in>>

ClassifyNext == AnalyzeStep

ClassifySpec == ClassifyInit /\ [][ClassifyNext]_vars

\* ------------------------------------ scan_market on one provider answer
\* The ticks of scan_market while yf.download returns the frame df_in for
\* every key, next to analyze applied to that frame in mode mode_in.
FrameNext ==
  \/ AnalyzeStep
  \/ ScanStart
  \/ ScanKey(df_in)
  \/ \E outcome \in {"ok", "raise"} : SendReturns(outcome)
  \/ ScanEnd

FrameSpec == ClassifyInit /\ [][FrameNext]_vars

\* ============================================================= properties
\* The step in which send_message returns for key k: its notification is
\* delivered.
Delivered(k) ==
  /\ pc = "sending"
  /\ KeyAt(idx) = k
  /\ pc' \in {"scan", "returned"}

\* The step that is the iteration of the loops for key k.
Iteration(k) ==
  /\ pc = "scan"
  /\ idx' = idx + 1
  /\ KeyAt(idx + 1) = k

\* C1 as stated: two notifications delivered for the same key are at least
\* the key's window (60 s for M1, 300 s for M5) apart in time.
C1_DeliveriesWindowApart ==
  [][\A k \in Keys :
       (Delivered(k) /\ lastSent.key = k) => clock - lastSent.at >= Window(k)]_vars

\* C1 amended: two notifications delivered for the same key come from
\* iterations whose readings of now (the value kept in last_signal_time) are
\* at least the key's window apart.
C1_StampsWindowApart ==
  [][\A k \in Keys :
       (Delivered(k) /\ k \in DOMAIN lastStamp) => now - lastStamp[k] >= Window(k)]_vars

\* C1 witness: a second notification for a key is on its way, exactly one
\* window after the reading of now that goes with the first.
C1_SecondNotification ==
  /\ pc = "sending"
  /\ KeyAt(idx) \in DOMAIN lastStamp
  /\ now - lastStamp[KeyAt(idx)] = Window(KeyAt(idx))

\* C2: in every state, also after send_message raised and the call ended,
\* last_signal_time holds exactly the keys a notification was delivered for,
\* each with the now of the iteration that delivered the latest one: no
\* delivery without the assignment, no assignment without a delivery.
C2_RecordedIffDelivered == last_signal_time = lastStamp

\* C2 witness: send_message raised for a key, which is not recorded, after
\* another key was notified and recorded.
C2_FailedSendNotRecorded ==
  /\ pc = "raised"
  /\ direction # None
  /\ KeyAt(idx) \notin DOMAIN last_signal_time
  /\ last_signal_time # NoKeys

\* C3: with a signal recorded for key k at t0, the iteration for k at time
\* t0 + D skips k (no download) exactly when D is less than k's window.
C3_CooldownBoundary ==
  [][\A k \in Keys :
       (Iteration(k) /\ k \in DOMAIN last_signal_time)
         => ((~downloaded') <=> (clock - last_signal_time[k] < Window(k)))]_vars

\* C4: when a call of scan_market that found the bot active is over, the
\* iteration of every configured key has begun in it.
C4_EveryKeyConsidered ==
  pc \in {"returned", "raised"} => Considered = Keys

\* C5: when send_message has raised, the cooldown of its key is recorded
\* with the time of that iteration (so that the key is not sent again within
\* its window).
C5_FailedSendRecorded ==
  (pc = "raised" /\ direction # None)
    => /\ KeyAt(idx) \in DOMAIN last_signal_time
       /\ last_signal_time[KeyAt(idx)] = now

\* C7: a call of scan_market that finds bot_active false returns at its top:
\* no iteration, no download, no notification, last_signal_time unchanged;
\* a call that finds it true (again) scans.
C7_InactiveTickSkipped ==
  [][/\ (pc = "idle" /\ pc' # "idle")
          => pc' = IF bot_active THEN "scan" ELSE "skipped"
     /\ (pc = "skipped" \/ pc' = "skipped")
          => /\ idx' = 0
             /\ ~downloaded'
             /\ UNCHANGED <<last_signal_time, lastStamp, lastSent>>]_vars

\* C7 witness: a call was skipped while signals are recorded.
C7_SkippedTick ==
  /\ pc = "skipped"
  /\ ~bot_active
  /\ last_signal_time # NoKeys

\* The iteration for key k called analyze and got no signal.
NoneVerdict(k) ==
  /\ Iteration(k)
  /\ downloaded'
  /\ pc' \in {"scan", "returned"}

\* C8, first half: an iteration in which analyze returns None leaves
\* last_signal_time unchanged.
C8_NoneVerdictKeepsMap ==
  [][\A k \in Keys : NoneVerdict(k) => last_signal_time' = last_signal_time]_vars

\* C8: an iteration in which analyze returns None for key k leaves
\* last_signal_time unchanged, and k passes the cooldown test of the next
\* tick, one interval later.
C8_NoneVerdictKeepsEligible ==
  [][\A k \in Keys :
       NoneVerdict(k)
         => /\ last_signal_time' = last_signal_time
            /\ ~InCooldown(last_signal_time', k, TfOfKey(k), clock + TickInterval)]_vars

\* C9: in an iteration for a key k whose cooldown is active (less than k's
\* window has passed since the recorded signal), yf.download is not called,
\* nothing is sent and nothing is recorded.
C9_CooldownSkipsProvider ==
  [][\A k \in Keys :
       (/\ Iteration(k)
        /\ k \in DOMAIN last_signal_time
        /\ clock - last_signal_time[k] < Window(k))
         => /\ ~downloaded'
            /\ pc' \in {"scan", "returned"}
            /\ last_signal_time' = last_signal_time]_vars

\* C9 witness: the latest iteration skipped a key in its cooldown.
C9_SkippedInCooldown ==
  /\ pc \in {"scan", "returned"}
  /\ idx >= 1
  /\ ~downloaded
  /\ KeyAt(idx) \in DOMAIN last_signal_time
  /\ clock - last_signal_time[KeyAt(idx)] < Window(KeyAt(idx))

\* The rows of the threshold table for a snapshot s in mode m.
TableBuy(s, m) ==
  /\ s.ema_fast > s.ema_slow
  /\ s.hist > 0
  /\ IF m = "AGGRESSIVE" THEN RsiBetween(45, s.rsi, 65) ELSE RsiBetween(48, s.rsi, 60)

TableSell(s, m) ==
  /\ s.ema_fast < s.ema_slow
  /\ s.hist < 0
  /\ IF m = "AGGRESSIVE" THEN RsiBetween(35, s.rsi, 55) ELSE RsiBetween(40, s.rsi, 52)

\* C10: on every snapshot and mode analyze returns BUY exactly on the BUY
\* row of the table, SELL exactly on the SELL row and None otherwise (so for
\* equal EMAs, a zero histogram and RSI 70); the rows never both hold.
C10_ClassifierTable ==
  (verdict # Unset /\ snapshot # NoSnapshot)
    => /\ (verdict = "BUY") <=> TableBuy(snapshot, mode_in)
       /\ (verdict = "SELL") <=> TableSell(snapshot, mode_in)
       /\ (verdict = None)
            <=> (~TableBuy(snapshot, mode_in) /\ ~TableSell(snapshot, mode_in))
       /\ ~(TableBuy(snapshot, mode_in) /\ TableSell(snapshot, mode_in))
       /\ (snapshot.ema_fast = snapshot.ema_slow) => verdict = None
       /\ (snapshot.hist = 0) => verdict = None
       /\ RsiBetween(70, snapshot.rsi, 70) => verdict = None

\* C10 witness: SAFE mode, RSI on the upper bound 60 of its BUY row, BUY.
C10_BuyOnBound ==
  /\ verdict = "BUY"
  /\ mode_in = "SAFE"
  /\ RsiBetween(60, snapshot.rsi, 60)

\* C11: while the provider returns an empty frame or one of fewer than 200
\* bars, analyze returns None and computes no latest value, no
\* notification is on its way or delivered, and no cooldown is recorded,
\* whatever the values in the frame would have given.
C11_ShortFrameNoSignal ==
  (df_in.kind = "data" /\ df_in.len < 200)
    => /\ verdict # Unset => (verdict = None /\ snapshot = NoSnapshot)
       /\ pc # "sending"
       /\ direction = None
       /\ last_signal_time = NoKeys
       /\ lastStamp = NoKeys
       /\ lastSent = NoSent

\* C11 witness: a call of scan_market has got a frame of 199 bars for
\* every key and returned, and analyze has returned None on that frame.
C11_ShortFrameTick ==
  /\ df_in.kind = "data"
  /\ df_in.len = 199
  /\ pc = "returned"
  /\ downloaded
  /\ Considered = Keys
  /\ verdict = None

\* C12: whenever analyze computes the RSI of a window whose average loss is
\* 0, the RSI is exactly 100, also when the average gain is 0; and the RSI
\* that reaches the comparisons of the signal logic is never NaN.
C12_ZeroLossRsi100 ==
  (verdict # Unset /\ snapshot # NoSnapshot)
    => /\ (df_in.loss = 0) => RsiBetween(100, snapshot.rsi, 100)
       /\ snapshot.rsi # NaN

\* C13: the counts daily_report puts in its text are stats["win"] and
\* stats["loss"] at the moment it is called, and it leaves stats as it is
\* until send_message returns; when send_message has returned and
\* daily_report ends, both counters are 0; a win command adds exactly 1 to
\* win and nothing to loss, a loss command exactly 1 to loss and nothing to
\* win.
C13_ReportReadsThenResets ==
  [][/\ (rpc = "idle" /\ rpc' = "sending")
          => /\ report'.wins = stats.win
             /\ report'.losses = stats.loss
             /\ stats' = stats
     /\ ReportReturns("ok") => stats' = Zero
     /\ (handled'.win = handled.win + 1)
          => (stats'.win = stats.win + 1 /\ stats'.loss = stats.loss)
     /\ (handled'.loss = handled.loss + 1)
          => (stats'.loss = stats.loss + 1 /\ stats'.win = stats.win)]_vars

\* C13 witness: a report of 2 wins and 1 loss has been delivered and the
\* counters are back at 0.
C13_ReportedAndReset ==
  /\ rpc = "idle"
  /\ reported = [win |-> 2, loss |-> 1]
  /\ handled = reported
  /\ stats = Zero

\* C14 as stated: the winrate in the reply of summary is
\* win/(win+loss)*100 when win+loss > 0, and 0 when win+loss = 0.
\* (reply.rate is the number shown, in hundredths.)
C14_SummaryExactWinrate ==
  ("rate" \in DOMAIN reply)
    => LET total == reply.wins + reply.losses
       IN  IF total > 0
             THEN reply.rate * total = reply.wins * 100 * 100
             ELSE reply.rate = 0

\* C14 amended: the winrate in the reply of summary is win/(win+loss)*100
\* rounded to two decimals (within half a hundredth of it) when
\* win+loss > 0, and 0.00 when win+loss = 0.
C14_SummaryRoundedWinrate ==
  ("rate" \in DOMAIN reply)
    => LET total == reply.wins + reply.losses
           diff  == reply.rate * total - reply.wins * 100 * 100
       IN  IF total > 0
             THEN -total <= 2 * diff /\ 2 * diff <= total
             ELSE reply.rate = 0

\* C14 witness: summary has replied 66.67 for 2 wins and 1 loss.
C14_TwoThirds ==
  /\ "rate" \in DOMAIN reply
  /\ reply.wins = 2
  /\ reply.losses = 1
  /\ reply.rate = 6667

\* A step of pause, resume, win, loss, summary or daily_report that has an
\* effect.
CommandStep ==
  \/ bot_active' # bot_active
  \/ stats' # stats
  \/ reply' # reply
  \/ rpc' # rpc
  \/ handled' # handled

\* C15: last_signal_time changes only in the step in which send_message of
\* scan_market returns, and there only at the key of that iteration, which
\* gets the now of the iteration: every other entry is as before, no entry
\* is ever removed, and no step of pause, resume, win, loss, summary or
\* daily_report changes the mapping.
C15_OnlyEmissionWrites ==
  [][/\ \A k \in DOMAIN last_signal_time : k \in DOMAIN last_signal_time'
     /\ (last_signal_time' # last_signal_time)
          => /\ pc = "sending"
             /\ pc' \in {"scan", "returned"}
             /\ last_signal_time'[KeyAt(idx)] = now
             /\ \A k \in DOMAIN last_signal_time' \ {KeyAt(idx)} :
                  /\ k \in DOMAIN last_signal_time
                  /\ last_signal_time'[k] = last_signal_time[k]
     /\ CommandStep => last_signal_time' = last_signal_time]_vars

\* C15 witness: signals are recorded for two keys, the second one emitted
\* after the first, and a pause, a win and a delivered daily report have
\* been handled since.
C15_TwoKeysAndCommands ==
  /\ Cardinality(DOMAIN last_signal_time) >= 2
  /\ ~bot_active
  /\ reported.win = 1
  /\ rpc = "idle"

\* C16: scan_market calls send_message only while bot_active is true, also
\* in a call that was already running when pause was handled.
C16_NoSendWhilePaused ==
  [][(pc = "scan" /\ pc' = "sending") => bot_active]_vars

\* C17: in every state the wins counted in the daily reports delivered so
\* far plus stats["win"] are the win commands handled, and likewise for
\* the losses: no recorded outcome is dropped by a reset, none is counted
\* twice.
C17_NoOutcomeLost ==
  /\ reported.win + stats.win = handled.win
  /\ reported.loss + stats.loss = handled.loss

====
